---- MODULE Spec2Model ----
(***************************************************************************)
(* A model of Channel<T> (src/metrics/src/channel/mod.rs): the per-metric  *)
(* aggregation state of the metrics library.  One Channel is modelled; its *)
(* fields are the variables, and every public method is one action.  This  *)
(* specification is the sequential one: each method runs to completion     *)
(* before the next starts.                                                 *)
(*                                                                         *)
(* Scaling.  u64 is modelled as 0..U64Max with wrapping arithmetic modulo  *)
(* U64Max + 1.  Timestamps are nanoseconds in the code and the rate        *)
(* formulas multiply by 1_000_000_000.0 (clock ticks per second); the      *)
(* model's clock ticks TicksPerSec times per second, scaled down together  *)
(* with the word so that rates cover the word's range and also saturate.   *)
(* f64 arithmetic is modelled by exact rational arithmetic, with the       *)
(* IEEE special cases (x/0 = inf, 0/0 = NaN) and Rust's saturating         *)
(* float-to-integer cast (NaN -> 0, inf -> u64::MAX) kept; f64 rounding of *)
(* inexact quotients is not modelled.                                      *)
(***************************************************************************)
EXTENDS Integers, Sequences, FiniteSets

\* ------------------------------------------------------------------ bounds

\* u64::MAX of the model's word.
U64Max == 2
\* Largest timestamp a caller or the clock supplies.
MaxTime == 2
\* Clock ticks per second of the model's clock (the code's 1e9, scaled).
TicksPerSec == 2
\* Largest total weight the histogram is let to hold (guards the recordings).
MaxSamples == 2
\* Largest count passed to record_distribution / record_increment.
MaxCount == 1
\* Threads that may call into one Channel at the same time.
NThreads == 3
\* Threads that do call at the same time where any number may.
NCallers == 2

Modulus == U64Max + 1
U64 == 0..U64Max
Times == 0..MaxTime
Values == U64
Counts == 0..MaxCount

\* ------------------------------------------------------ types of the crate

Sources == {"Counter", "Gauge", "Distribution", "TimeInterval"}

\* Output::Percentile carries the percentile; the other kinds carry nothing.
Percentiles == {50}
OutReading == <<"Reading", 0>>
OutMaxPointTime == <<"MaxPointTime", 0>>
OutMinPointTime == <<"MinPointTime", 0>>
OutPercentile(p) == <<"Percentile", p>>
OutputKinds ==
    {OutReading, OutMaxPointTime, OutMinPointTime}
        \cup {OutPercentile(p) : p \in Percentiles}

\* The name of the Channel's statistic.
StatName == "metric"

VARIABLES
    source,          \* Source, fixed at construction
    reading,         \* AtomicU64
    histogram,       \* Option<Histogram<T>>: << >> is None, <<h>> is Some(h)
    last_write,      \* AtomicU64
    latched,         \* bool
    max,             \* Point
    min,             \* Point
    outputs,         \* the HashSet<Output> behind the mutex
    has_data,        \* AtomicBool
    panicked,        \* a call has panicked: the calling thread is gone
    op,              \* history: the method called last
    noop,            \* history: that call left every field of the Channel as it was
    incremented,     \* history: record_increment took effect since new()/zero()
    tracked,         \* history: the recordings that reached the extremum step since
                     \* new()/latch()/zero(): "none", "ok" (all with a nonzero
                     \* timestamp) or "zero" (one of them with timestamp 0)
    wrapped,         \* history: that call was a record_counter with has_data set
                     \* and a value below the reading
    total,           \* history: <<n>>, n the sum, in the word, of the amounts
                     \* supplied to the accumulating calls since new()/zero();
                     \* Void where the run does not keep the sum, and once a
                     \* record_counter set the reading
    pc,              \* each thread's position in the call it is running
    loc,             \* each thread's arguments and locals
    lock,            \* the thread holding the mutex of the output set, 0 if free
    overlap          \* history: two calls were in progress at the same time

chan == <<source, reading, histogram, last_write, latched, max, min, outputs, has_data>>
history == <<op, noop, incremented, tracked, wrapped, total>>
conc == <<pc, loc, lock, overlap>>
vars == <<source, reading, histogram, last_write, latched, max, min, outputs,
          has_data, panicked, op, noop, incremented, tracked, wrapped, total,
          pc, loc, lock, overlap>>

\* ------------------------------------------------------- integer arithmetic

\* u64::saturating_sub in the place of wrapping_sub.
saturating_sub(a, b) == IF a < b THEN 0 ELSE a - b

wrapping_sub(a, b) == (a - b + Modulus) % Modulus
wrapping_add(a, b) == (a + b) % Modulus

\* `x as u64` for a non-negative finite f64 x with integer part n: saturates.
F64AsU64(n) == IF n > U64Max THEN U64Max ELSE n

\* The quotient taken in integers before the scaling, not in f64.
RateCounterIntegerQuotient(delta_value, delta_time) ==
    IF delta_time = 0
    THEN IF delta_value = 0 THEN 0 ELSE U64Max
    ELSE F64AsU64((delta_value \div delta_time) * TicksPerSec)

\* ((delta_value as f64 / delta_time as f64) * 1_000_000_000.0) as u64
RateCounter(delta_value, delta_time) ==
    IF delta_time = 0
    THEN IF delta_value = 0 THEN 0 ELSE U64Max
    ELSE F64AsU64((delta_value * TicksPerSec) \div delta_time)

\* (value as f64 * (1_000_000_000.0 / delta_time as f64)) as u64
RateDelta(value, delta_time) ==
    IF delta_time = 0
    THEN IF value = 0 THEN 0 ELSE U64Max
    ELSE F64AsU64((value * TicksPerSec) \div delta_time)

\* ------------------------------------------------------------------- Point

PointNew(value, time) == [value |-> value, time |-> time]
PointSet(p, value, time) == [value |-> value, time |-> time]

\* --------------------------------------------------------------- Histogram

\* A histogram is the weight it holds at each value.
HistEmpty == [v \in U64 |-> 0]
HistIncrement(h, value, weight) == [h EXCEPT ![value] = @ + weight]
HistClear(h) == HistEmpty

RECURSIVE HistBelow(_, _)
\* The weight held at the values 0..v.
HistBelow(h, v) == IF v < 0 THEN 0 ELSE h[v] + HistBelow(h, v - 1)
HistTotal(h) == HistBelow(h, U64Max)

\* percentile(p): the least value with at least p percent of the weight at or
\* below it; an error on an empty histogram.
HistPercentile(h, p) ==
    IF HistTotal(h) = 0
    THEN [ok |-> FALSE, value |-> 0]
    ELSE [ok |-> TRUE,
          value |-> CHOOSE v \in U64 :
                        /\ HistBelow(h, v) * 100 >= p * HistTotal(h)
                        /\ \A w \in 0..(v - 1) : HistBelow(h, w) * 100 < p * HistTotal(h)]

\* `if let Some(ref histogram) = self.histogram { histogram.increment(..) }`
IncrementSome(hist, value, weight) ==
    IF hist = << >> THEN hist ELSE <<HistIncrement(hist[1], value, weight)>>

\* A clear that is skipped.
ClearSomeSkipped(hist) == hist

\* `if let Some(ref histogram) = self.histogram { histogram.clear() }`
ClearSome(hist) ==
    IF hist = << >> THEN hist ELSE <<HistClear(hist[1])>>

\* The bound on the histogram's weight: a recording that adds `weight` is taken
\* only while the histogram has room for it.
HistRoom(weight) ==
    IF histogram = << >> THEN TRUE ELSE HistTotal(histogram[1]) + weight <= MaxSamples

\* ----------------------------------------------------------- extremum rule

\* The comparison of the max rule with >= in the place of >.
TrackMaxNonStrict(p, value, time) ==
    IF p.time > 0
    THEN IF value >= p.value THEN PointSet(p, value, time) ELSE p
    ELSE PointSet(p, value, time)

\* if self.max.time() > 0 { if v > self.max.value() { set } } else { set }
TrackMax(p, value, time) ==
    IF p.time > 0
    THEN IF value > p.value THEN PointSet(p, value, time) ELSE p
    ELSE PointSet(p, value, time)

\* if self.min.time() > 0 { if v < self.min.value() { set } } else { set }
TrackMin(p, value, time) ==
    IF p.time > 0
    THEN IF value < p.value THEN PointSet(p, value, time) ELSE p
    ELSE PointSet(p, value, time)

\* ------------------------------------------------------------ construction

\* ----------------------------------------------------------------- threads

Threads == 1..NThreads

\* A thread that is in no call, and the locals of a thread before its call.
Idle == "idle"
Done == "done"
NoLocals == [op |-> "", a |-> 0, b |-> 0, c |-> 0, d |-> 0, lw |-> 0, x |-> 0, o |-> << >>]

\* `total` where no sum is kept.
Void == << >>
Supplied(amount) == IF total = Void THEN Void ELSE <<(total[1] + amount) % Modulus>>

\* Channel::new(statistic, summary): the clock stamps last_write.
New(src, summary, now) ==
    /\ source = src
    /\ reading = 0
    /\ histogram = IF summary THEN <<HistEmpty>> ELSE << >>
    /\ last_write = now
    /\ latched = TRUE
    /\ max = PointNew(0, 0)
    /\ min = PointNew(0, 0)
    /\ outputs = {}
    /\ has_data = FALSE
    /\ panicked = FALSE
    /\ op = "new"
    /\ noop = FALSE
    /\ incremented = FALSE
    /\ tracked = "none"
    /\ wrapped = FALSE
    /\ pc = [th \in Threads |-> Idle]
    /\ loc = [th \in Threads |-> NoLocals]
    /\ lock = 0
    /\ overlap = FALSE

Init ==
    \E src \in Sources, summary \in BOOLEAN, now \in Times :
        New(src, summary, now) /\ total = Void

\* ------------------------------------------------------------------ gating

\* A gate that lets every kind through.
KindIsAny(kind) == TRUE

\* `if self.source == Source::<kind>`, the first test of every record_*.
KindIs(kind) == source = kind

\* ----------------------------------------------------------------- history

\* The history of a call named `name` that returned.
Called(name) ==
    /\ op' = name
    /\ noop' = (chan' = chan)
    /\ UNCHANGED panicked
    /\ UNCHANGED conc

\* `tracked` after a recording with timestamp `time` reached the extremum step.
Tracking(time) == IF time = 0 \/ tracked = "zero" THEN "zero" ELSE "ok"

\* ---------------------------------------------------------------- recording

RecordCounter(time, value) ==
    /\ ~panicked
    /\ IF KindIs("Counter")
       THEN /\ IF has_data
               THEN LET delta_value == wrapping_sub(value, reading)
                        delta_time == wrapping_sub(time, last_write)
                        rate == RateCounter(delta_value, delta_time)
                    IN  /\ HistRoom(1)
                        /\ reading' = wrapping_add(reading, delta_value)
                        /\ histogram' = IncrementSome(histogram, rate, 1)
                        /\ max' = TrackMax(max, rate, time)
                        /\ min' = TrackMin(min, rate, time)
                        /\ UNCHANGED has_data
                        /\ tracked' = Tracking(time)
               ELSE /\ reading' = value
                    /\ has_data' = TRUE
                    /\ UNCHANGED <<histogram, max, min, tracked>>
            /\ last_write' = time
            /\ UNCHANGED <<source, latched, outputs>>
       ELSE UNCHANGED <<chan, tracked>>
    /\ wrapped' = (source = "Counter" /\ has_data /\ value < reading)
    /\ total' = IF KindIs("Counter") THEN Void ELSE total
    /\ UNCHANGED incremented
    /\ Called("record_counter")

\* `time - last_write` of record_delta is a plain subtraction, which overflows
\* when time < last_write.
DeltaTimeOverflows(time) == time < last_write

\* What an overflowing subtraction does is the build's choice: with overflow
\* checks (the debug profile) it panics, without them (release) it wraps.
RecordDelta(time, value) ==
    /\ ~panicked
    /\ UNCHANGED <<incremented, wrapped>>
    /\ IF KindIs("Counter")
       THEN \/ /\ has_data
               /\ DeltaTimeOverflows(time)
               /\ panicked' = TRUE
               /\ op' = "record_delta"
               /\ UNCHANGED <<chan, tracked, noop, total, conc>>
            \/ /\ IF has_data
                  THEN LET delta_time == wrapping_sub(time, last_write)
                           rate == RateDelta(value, delta_time)
                       IN  /\ HistRoom(1)
                           /\ reading' = wrapping_add(reading, value)
                           /\ histogram' = IncrementSome(histogram, rate, 1)
                           /\ max' = TrackMax(max, rate, time)
                           /\ min' = TrackMin(min, rate, time)
                           /\ UNCHANGED has_data
                           /\ tracked' = Tracking(time)
                  ELSE /\ reading' = value
                       /\ has_data' = TRUE
                       /\ UNCHANGED <<histogram, max, min, tracked>>
               /\ last_write' = time
               /\ UNCHANGED <<source, latched, outputs>>
               /\ total' = Supplied(value)
               /\ Called("record_delta")
       ELSE /\ UNCHANGED <<chan, tracked, total>>
            /\ Called("record_delta")

RecordDistribution(time, value, count) ==
    /\ ~panicked
    /\ IF KindIs("Distribution")
       THEN /\ HistRoom(count)
            /\ reading' = wrapping_add(reading, count)
            /\ histogram' = IncrementSome(histogram, value, count)
            /\ last_write' = time
            /\ UNCHANGED <<source, latched, max, min, outputs, has_data>>
            /\ total' = Supplied(count)
       ELSE UNCHANGED <<chan, total>>
    /\ UNCHANGED <<incremented, tracked, wrapped>>
    /\ Called("record_distribution")

RecordGauge(time, value) ==
    /\ ~panicked
    /\ IF KindIs("Gauge")
       THEN /\ HistRoom(1)
            /\ reading' = value
            /\ histogram' = IncrementSome(histogram, value, 1)
            /\ max' = TrackMax(max, value, time)
            /\ min' = TrackMin(min, value, time)
            /\ last_write' = time
            /\ UNCHANGED <<source, latched, outputs, has_data>>
            /\ tracked' = Tracking(time)
       ELSE UNCHANGED <<chan, tracked>>
    /\ UNCHANGED <<incremented, wrapped, total>>
    /\ Called("record_gauge")

RecordIncrement(time, count) ==
    /\ ~panicked
    /\ IF KindIs("Counter")
       THEN /\ HistRoom(1)
            /\ reading' = wrapping_add(reading, count)
            /\ histogram' = IncrementSome(histogram, count, 1)
            /\ last_write' = time
            /\ UNCHANGED <<source, latched, max, min, outputs, has_data>>
            /\ incremented' = TRUE
            /\ total' = Supplied(count)
       ELSE UNCHANGED <<chan, incremented, total>>
    /\ UNCHANGED <<tracked, wrapped>>
    /\ Called("record_increment")

RecordTimeInterval(start, stop) ==
    /\ ~panicked
    /\ IF KindIs("TimeInterval")
       THEN LET duration == wrapping_sub(stop, start)
            IN  /\ HistRoom(1)
                /\ reading' = wrapping_add(reading, 1)
                /\ histogram' = IncrementSome(histogram, duration, 1)
                /\ max' = TrackMax(max, duration, start)
                /\ min' = TrackMin(min, duration, start)
                /\ UNCHANGED <<source, last_write, latched, outputs, has_data>>
                /\ tracked' = Tracking(start)
                /\ total' = Supplied(1)
       ELSE UNCHANGED <<chan, tracked, total>>
    /\ UNCHANGED <<incremented, wrapped>>
    /\ Called("record_time_interval")

\* ------------------------------------------------------------------ queries

\* Channel::reading()
GetReading == reading

NoSummary == "NoSummary"
EmptyChannel == "EmptyChannel"
Ok(value) == [ok |-> TRUE, value |-> value, err |-> ""]
Err(e) == [ok |-> FALSE, value |-> 0, err |-> e]

\* percentile() with the two errors taken for one another.
percentileErrorsSwapped(p) ==
    IF histogram # << >>
    THEN LET r == HistPercentile(histogram[1], p)
         IN  IF r.ok THEN Ok(r.value) ELSE Err(NoSummary)
    ELSE Err(EmptyChannel)

\* Channel::percentile(p)
percentile(p) ==
    IF histogram # << >>
    THEN LET r == HistPercentile(histogram[1], p)
         IN  IF r.ok THEN Ok(r.value) ELSE Err(EmptyChannel)
    ELSE Err(NoSummary)

\* ----------------------------------------------------------------- outputs

\* An insert that removes the output when it is already there.
AddOutputToggles(output) ==
    /\ ~panicked
    /\ outputs' = IF output \in outputs THEN outputs \ {output} ELSE outputs \cup {output}
    /\ UNCHANGED <<source, reading, histogram, last_write, latched, max, min, has_data>>
    /\ UNCHANGED <<incremented, tracked, wrapped, total>>
    /\ Called("add_output")

AddOutput(output) ==
    /\ ~panicked
    /\ outputs' = outputs \cup {output}
    /\ UNCHANGED <<source, reading, histogram, last_write, latched, max, min, has_data>>
    /\ UNCHANGED <<incremented, tracked, wrapped, total>>
    /\ Called("add_output")

\* A remove that finds nothing to remove.
DeleteOutputRemovesNothing(output) ==
    /\ ~panicked
    /\ outputs' = outputs
    /\ UNCHANGED <<source, reading, histogram, last_write, latched, max, min, has_data>>
    /\ UNCHANGED <<incremented, tracked, wrapped, total>>
    /\ Called("delete_output")

DeleteOutput(output) ==
    /\ ~panicked
    /\ outputs' = outputs \ {output}
    /\ UNCHANGED <<source, reading, histogram, last_write, latched, max, min, has_data>>
    /\ UNCHANGED <<incremented, tracked, wrapped, total>>
    /\ Called("delete_output")

\* ------------------------------------------------------------ latch and zero

Latch ==
    /\ ~panicked
    /\ histogram' = IF latched THEN ClearSome(histogram) ELSE histogram
    /\ max' = PointSet(max, 0, 0)
    /\ min' = PointSet(min, 0, 0)
    /\ UNCHANGED <<source, reading, last_write, latched, outputs, has_data>>
    /\ tracked' = "none"
    /\ UNCHANGED <<incremented, wrapped, total>>
    /\ Called("latch")

\* zero() without the store of 0 to the reading.
ZeroKeepsReading(now) ==
    /\ ~panicked
    /\ has_data' = FALSE
    /\ last_write' = now
    /\ reading' = reading
    /\ histogram' = ClearSome(histogram)
    /\ max' = PointSet(max, 0, 0)
    /\ min' = PointSet(min, 0, 0)
    /\ UNCHANGED <<source, latched, outputs>>
    /\ tracked' = "none"
    /\ incremented' = FALSE
    /\ UNCHANGED wrapped
    /\ total' = IF total = Void THEN Void ELSE <<0>>
    /\ Called("zero")

\* zero(): the clock stamps last_write.
Zero(now) ==
    /\ ~panicked
    /\ has_data' = FALSE
    /\ last_write' = now
    /\ reading' = 0
    /\ histogram' = ClearSome(histogram)
    /\ max' = PointSet(max, 0, 0)
    /\ min' = PointSet(min, 0, 0)
    /\ UNCHANGED <<source, latched, outputs>>
    /\ tracked' = "none"
    /\ incremented' = FALSE
    /\ UNCHANGED wrapped
    /\ total' = IF total = Void THEN Void ELSE <<0>>
    /\ Called("zero")

\* ------------------------------------------------------ readings / hash_map

NewReading(label, output, value) == [label |-> label, output |-> output, value |-> value]

\* The match of readings() with a failed percentile pushed as 0.
ReadingForPushesFailure(output) ==
    IF output = OutReading
    THEN <<NewReading(StatName, output, GetReading)>>
    ELSE IF output = OutMaxPointTime
    THEN IF max.time > 0 THEN <<NewReading(StatName, output, max.time)>> ELSE << >>
    ELSE IF output = OutMinPointTime
    THEN IF max.time > 0 THEN <<NewReading(StatName, output, min.time)>> ELSE << >>
    ELSE <<NewReading(StatName, output, percentile(output[2]).value)>>

\* What the match of readings() pushes for one output: one Reading, or none.
ReadingFor(output) ==
    IF output = OutReading
    THEN <<NewReading(StatName, output, GetReading)>>
    ELSE IF output = OutMaxPointTime
    THEN IF max.time > 0 THEN <<NewReading(StatName, output, max.time)>> ELSE << >>
    ELSE IF output = OutMinPointTime
    THEN IF max.time > 0 THEN <<NewReading(StatName, output, min.time)>> ELSE << >>
    ELSE LET r == percentile(output[2])
         IN  IF r.ok THEN <<NewReading(StatName, output, r.value)>> ELSE << >>

RECURSIVE ReadingsOver(_)
\* The loop of readings() over the set, in the order the set iterates.
ReadingsOver(outs) ==
    IF outs = {}
    THEN << >>
    ELSE LET o == CHOOSE x \in outs : TRUE
         IN  ReadingFor(o) \o ReadingsOver(outs \ {o})

\* Channel::readings()
readings == ReadingsOver(outputs)

\* What the match of hash_map() inserts for one output: one value, or none.
HashMapFor(output) ==
    IF output = OutReading
    THEN <<GetReading>>
    ELSE IF output = OutMaxPointTime
    THEN IF max.time > 0 THEN <<max.time>> ELSE << >>
    ELSE IF output = OutMinPointTime
    THEN IF max.time > 0 THEN <<min.time>> ELSE << >>
    ELSE LET r == percentile(output[2])
         IN  IF r.ok THEN <<r.value>> ELSE << >>

\* HashMap::insert
Insert(map, key, value) ==
    [k \in DOMAIN map \cup {key} |-> IF k = key THEN value ELSE map[k]]

RECURSIVE HashMapOver(_)
\* The loop of hash_map() over the set.
HashMapOver(outs) ==
    IF outs = {}
    THEN << >>
    ELSE LET o == CHOOSE x \in outs : TRUE
             rest == HashMapOver(outs \ {o})
             v == HashMapFor(o)
         IN  IF v = << >> THEN rest ELSE Insert(rest, o, v[1])

\* Channel::hash_map()
hash_map == HashMapOver(outputs)

\* ------------------------------------------------------ calls, step by step
\* A call of a thread is a sequence of steps, one per atomic load, store or
\* read-modify-write of the method, in the method's order. The locals of the
\* call: a and b are the first two arguments (time or start, value or stop), c
\* the weight of its histogram sample, d the amount it adds to the reading, lw
\* the last_write it loaded, x the sample it feeds to the histogram and to the
\* extremum trackers, o the Output passed to add_output / delete_output.

\* The threads inside a call.
Running == {th \in Threads : pc[th] \notin {Idle, Done}}

\* The positions of a recording call that has yet to increment the histogram.
BeforeIncrement ==
    {"load_has_data", "load_last_write", "load_reading", "store_reading",
     "fetch_add", "increment"}

RECURSIVE WeightOf(_)
\* The weight the calls of the threads `ths` have yet to add to the histogram.
WeightOf(ths) ==
    IF ths = {}
    THEN 0
    ELSE LET th == CHOOSE t \in ths : TRUE
         IN  (IF pc[th] \in BeforeIncrement THEN loc[th].c ELSE 0) + WeightOf(ths \ {th})

\* The histogram has room for what is in flight and `weight` more.
RoomFor(weight) ==
    IF histogram = << >>
    THEN TRUE
    ELSE HistTotal(histogram[1]) + WeightOf(Threads) + weight <= MaxSamples

\* Thread th passes from its position to `to`.
Goto(th, to) == pc' = [pc EXCEPT ![th] = to]

\* Thread th returns from its call; its arguments stay on record.
Return(th) ==
    /\ pc' = [pc EXCEPT ![th] = Done]
    /\ loc' = [loc EXCEPT ![th] = [@ EXCEPT !.d = 0, !.lw = 0, !.x = 0]]

\* Thread th calls method `name`, whose first step is `first`.
Enter(th, name, first, locals) ==
    /\ pc[th] = Idle
    /\ pc' = [pc EXCEPT ![th] = first]
    /\ loc' = [loc EXCEPT ![th] = [locals EXCEPT !.op = name]]
    /\ overlap' = (overlap \/ Running # {})
    /\ UNCHANGED <<chan, panicked, history, lock>>

\* A step of thread th at position `at` that touches the Channel only.
Step(th, at) ==
    /\ pc[th] = at
    /\ UNCHANGED <<panicked, history, lock, overlap>>

\* record_counter(time, value), entered.
EnterRecordCounter(th, time, value) ==
    /\ KindIs("Counter")
    /\ RoomFor(1)
    /\ Enter(th, "record_counter", "load_has_data",
             [NoLocals EXCEPT !.a = time, !.b = value, !.c = 1])

\* `if self.has_data.load(Ordering::Relaxed)`
LoadHasData(th) ==
    /\ Step(th, "load_has_data")
    /\ Goto(th, IF has_data THEN "load_last_write" ELSE "boot_reading")
    /\ UNCHANGED <<chan, loc>>

\* `let last_write = self.last_write.load(Ordering::Relaxed)`
LoadLastWrite(th) ==
    /\ Step(th, "load_last_write")
    /\ loc' = [loc EXCEPT ![th].lw = last_write]
    /\ Goto(th, "load_reading")
    /\ UNCHANGED chan

\* The load of the reading taken as 0, the reading of a fresh Channel.
LoadReadingAsFresh(th) ==
    /\ Step(th, "load_reading")
    /\ LET delta_value == wrapping_sub(loc[th].b, 0)
           delta_time == wrapping_sub(loc[th].a, loc[th].lw)
       IN  loc' = [loc EXCEPT ![th].d = delta_value,
                              ![th].x = RateCounter(delta_value, delta_time)]
    /\ Goto(th, "fetch_add")
    /\ UNCHANGED chan

\* `value.wrapping_sub(self.reading.load(Ordering::Relaxed))`, then delta_time
\* and the rate, which touch no shared field.
LoadReading(th) ==
    /\ Step(th, "load_reading")
    /\ LET delta_value == wrapping_sub(loc[th].b, reading)
           delta_time == wrapping_sub(loc[th].a, loc[th].lw)
       IN  loc' = [loc EXCEPT ![th].d = delta_value,
                              ![th].x = RateCounter(delta_value, delta_time)]
    /\ Goto(th, "fetch_add")
    /\ UNCHANGED chan

\* A fetch_add that stores the amount over the reading.
FetchAddOverwrites(th) ==
    /\ Step(th, "fetch_add")
    /\ reading' = loc[th].d
    /\ Goto(th, "increment")
    /\ UNCHANGED <<source, histogram, last_write, latched, max, min, outputs, has_data, loc>>

\* `self.reading.fetch_add(.., Ordering::Relaxed)`: one read-modify-write.
FetchAdd(th) ==
    /\ Step(th, "fetch_add")
    /\ reading' = wrapping_add(reading, loc[th].d)
    /\ Goto(th, "increment")
    /\ UNCHANGED <<source, histogram, last_write, latched, max, min, outputs, has_data, loc>>

\* `if let Some(ref histogram) = self.histogram { histogram.increment(..) }`;
\* record_distribution goes on to its store of last_write, the others to the
\* extremum trackers.
Increment(th) ==
    /\ Step(th, "increment")
    /\ histogram' = IncrementSome(histogram, loc[th].x, loc[th].c)
    /\ Goto(th, IF loc[th].op = "record_distribution" THEN "store_last_write" ELSE "max_time")
    /\ UNCHANGED <<source, reading, last_write, latched, max, min, outputs, has_data, loc>>

\* `if self.max.time() > 0`
CheckMaxTime(th) ==
    /\ Step(th, "max_time")
    /\ Goto(th, IF max.time > 0 THEN "max_value" ELSE "max_set")
    /\ UNCHANGED <<chan, loc>>

\* `if rate > self.max.value()`
CheckMaxValue(th) ==
    /\ Step(th, "max_value")
    /\ Goto(th, IF loc[th].x > max.value THEN "max_set" ELSE "min_time")
    /\ UNCHANGED <<chan, loc>>

\* `self.max.set(rate, time)`
MaxSet(th) ==
    /\ Step(th, "max_set")
    /\ max' = PointSet(max, loc[th].x, loc[th].a)
    /\ Goto(th, "min_time")
    /\ UNCHANGED <<source, reading, histogram, last_write, latched, min, outputs, has_data, loc>>

\* `if self.min.time() > 0`
CheckMinTime(th) ==
    /\ Step(th, "min_time")
    /\ Goto(th, IF min.time > 0 THEN "min_value" ELSE "min_set")
    /\ UNCHANGED <<chan, loc>>

\* What follows the extremum trackers: record_time_interval returns, the
\* others store last_write.
AfterMin(th) ==
    IF loc[th].op = "record_time_interval"
    THEN Return(th)
    ELSE Goto(th, "store_last_write") /\ UNCHANGED loc

\* `if rate < self.min.value()`
CheckMinValue(th) ==
    /\ Step(th, "min_value")
    /\ IF loc[th].x < min.value
       THEN Goto(th, "min_set") /\ UNCHANGED loc
       ELSE AfterMin(th)
    /\ UNCHANGED chan

\* The set of the minimum with its two arguments swapped.
MinSetSwapsArguments(th) ==
    /\ Step(th, "min_set")
    /\ min' = PointSet(min, loc[th].a, loc[th].x)
    /\ AfterMin(th)
    /\ UNCHANGED <<source, reading, histogram, last_write, latched, max, outputs, has_data>>

\* `self.min.set(rate, time)`
MinSet(th) ==
    /\ Step(th, "min_set")
    /\ min' = PointSet(min, loc[th].x, loc[th].a)
    /\ AfterMin(th)
    /\ UNCHANGED <<source, reading, histogram, last_write, latched, max, outputs, has_data>>

\* `self.last_write.store(time, Ordering::Relaxed)`, the last step.
StoreLastWrite(th) ==
    /\ Step(th, "store_last_write")
    /\ last_write' = loc[th].a
    /\ Return(th)
    /\ UNCHANGED <<source, reading, histogram, latched, max, min, outputs, has_data>>

\* `self.reading.store(value, Ordering::Relaxed)` of the bootstrap branch
BootReading(th) ==
    /\ Step(th, "boot_reading")
    /\ reading' = loc[th].b
    /\ Goto(th, "boot_has_data")
    /\ UNCHANGED <<source, histogram, last_write, latched, max, min, outputs, has_data, loc>>

\* `self.has_data.store(true, Ordering::Relaxed)`
BootHasData(th) ==
    /\ Step(th, "boot_has_data")
    /\ has_data' = TRUE
    /\ Goto(th, "store_last_write")
    /\ UNCHANGED <<source, reading, histogram, last_write, latched, max, min, outputs, loc>>

\* A step of a record_counter call in progress.
RecordCounterStep(th) ==
    \/ LoadHasData(th)
    \/ LoadLastWrite(th)
    \/ LoadReading(th)
    \/ FetchAdd(th)
    \/ Increment(th)
    \/ BootReading(th)
    \/ BootHasData(th)
    \/ StoreLastWrite(th)

\* A step of the extremum rule of a recording in progress.
ExtremumStep(th) ==
    \/ CheckMaxTime(th)
    \/ CheckMaxValue(th)
    \/ MaxSet(th)
    \/ CheckMinTime(th)
    \/ CheckMinValue(th)
    \/ MinSet(th)

\* record_gauge(time, value), entered.
EnterRecordGauge(th, time, value) ==
    /\ KindIs("Gauge")
    /\ RoomFor(1)
    /\ Enter(th, "record_gauge", "store_reading",
             [NoLocals EXCEPT !.a = time, !.b = value, !.c = 1, !.x = value])

\* `self.reading.store(value, Ordering::Relaxed)` of record_gauge
StoreReading(th) ==
    /\ Step(th, "store_reading")
    /\ reading' = loc[th].b
    /\ Goto(th, "increment")
    /\ UNCHANGED <<source, histogram, last_write, latched, max, min, outputs, has_data, loc>>

\* A step of a record_gauge call in progress.
RecordGaugeStep(th) ==
    \/ StoreReading(th)
    \/ Increment(th)
    \/ StoreLastWrite(th)

\* latch(), entered.
EnterLatch(th) == Enter(th, "latch", "latch_clear", NoLocals)

\* `if self.latched { if let Some(ref histogram) = self.histogram { histogram.clear() } }`
LatchClear(th) ==
    /\ Step(th, "latch_clear")
    /\ histogram' = IF latched THEN ClearSome(histogram) ELSE histogram
    /\ Goto(th, "reset_max")
    /\ UNCHANGED <<source, reading, last_write, latched, max, min, outputs, has_data, loc>>

\* A reset that zeroes the time and keeps the value.
ResetMaxTimeOnly(th) ==
    /\ Step(th, "reset_max")
    /\ max' = PointSet(max, max.value, 0)
    /\ Goto(th, "reset_min")
    /\ UNCHANGED <<source, reading, histogram, last_write, latched, min, outputs, has_data, loc>>

\* `self.max.set(0, 0)` of latch and zero
ResetMax(th) ==
    /\ Step(th, "reset_max")
    /\ max' = PointSet(max, 0, 0)
    /\ Goto(th, "reset_min")
    /\ UNCHANGED <<source, reading, histogram, last_write, latched, min, outputs, has_data, loc>>

\* `self.min.set(0, 0)` of latch and zero, the last step of both.
ResetMin(th) ==
    /\ Step(th, "reset_min")
    /\ min' = PointSet(min, 0, 0)
    /\ Return(th)
    /\ UNCHANGED <<source, reading, histogram, last_write, latched, max, outputs, has_data>>

\* zero(), entered; the clock gives `now`.
EnterZero(th, now) == Enter(th, "zero", "zero_has_data", [NoLocals EXCEPT !.a = now])

\* `self.has_data.store(false, Ordering::SeqCst)`
ZeroHasData(th) ==
    /\ Step(th, "zero_has_data")
    /\ has_data' = FALSE
    /\ Goto(th, "zero_last_write")
    /\ UNCHANGED <<source, reading, histogram, last_write, latched, max, min, outputs, loc>>

\* `self.last_write.store(time::precise_time_ns(), Ordering::Relaxed)`
ZeroLastWrite(th) ==
    /\ Step(th, "zero_last_write")
    /\ last_write' = loc[th].a
    /\ Goto(th, "zero_reading")
    /\ UNCHANGED <<source, reading, histogram, latched, max, min, outputs, has_data, loc>>

\* `self.reading.store(0, Ordering::Relaxed)`
ZeroReading(th) ==
    /\ Step(th, "zero_reading")
    /\ reading' = 0
    /\ Goto(th, "zero_clear")
    /\ UNCHANGED <<source, histogram, last_write, latched, max, min, outputs, has_data, loc>>

\* `if let Some(ref histogram) = self.histogram { histogram.clear() }`
ZeroClear(th) ==
    /\ Step(th, "zero_clear")
    /\ histogram' = ClearSome(histogram)
    /\ Goto(th, "reset_max")
    /\ UNCHANGED <<source, reading, last_write, latched, max, min, outputs, has_data, loc>>

\* A step of a latch() or zero() call in progress.
ResetStep(th) ==
    \/ LatchClear(th)
    \/ ZeroHasData(th)
    \/ ZeroLastWrite(th)
    \/ ZeroReading(th)
    \/ ZeroClear(th)
    \/ ResetMax(th)
    \/ ResetMin(th)

\* record_distribution(time, value, count), entered.
EnterRecordDistribution(th, time, value, count) ==
    /\ KindIs("Distribution")
    /\ RoomFor(count)
    /\ Enter(th, "record_distribution", "fetch_add",
             [NoLocals EXCEPT !.a = time, !.b = value, !.c = count, !.d = count, !.x = value])

\* A step of a record_distribution call in progress.
RecordDistributionStep(th) ==
    \/ FetchAdd(th)
    \/ Increment(th)
    \/ StoreLastWrite(th)

\* A record_time_interval that adds the duration to the reading.
EnterRecordTimeIntervalAddsDuration(th, start, stop) ==
    /\ KindIs("TimeInterval")
    /\ RoomFor(1)
    /\ Enter(th, "record_time_interval", "fetch_add",
             [NoLocals EXCEPT !.a = start, !.b = stop, !.c = 1,
                              !.d = wrapping_sub(stop, start),
                              !.x = wrapping_sub(stop, start)])

\* record_time_interval(start, stop), entered; the duration touches no shared
\* field.
EnterRecordTimeInterval(th, start, stop) ==
    /\ KindIs("TimeInterval")
    /\ RoomFor(1)
    /\ Enter(th, "record_time_interval", "fetch_add",
             [NoLocals EXCEPT !.a = start, !.b = stop, !.c = 1, !.d = 1,
                              !.x = wrapping_sub(stop, start)])

\* A step of a record_time_interval call in progress.
RecordTimeIntervalStep(th) ==
    \/ FetchAdd(th)
    \/ Increment(th)
    \/ ExtremumStep(th)

\* The methods that take the mutex of the output set, and their step under it.
Locked == [add_output |-> "insert", delete_output |-> "remove",
           readings |-> "iterate", hash_map |-> "iterate"]

\* add_output(output), entered.
EnterAddOutput(th, output) ==
    Enter(th, "add_output", "lock", [NoLocals EXCEPT !.o = output])

\* delete_output(output), entered.
EnterDeleteOutput(th, output) ==
    Enter(th, "delete_output", "lock", [NoLocals EXCEPT !.o = output])

\* readings() or hash_map(), entered.
EnterQuery(th, name) ==
    /\ name \in {"readings", "hash_map"}
    /\ Enter(th, name, "lock", NoLocals)

\* `self.outputs.lock().unwrap()`: the thread waits while the mutex is held; no
\* holder panics under it, so it is never poisoned.
Lock(th) ==
    /\ pc[th] = "lock"
    /\ lock = 0
    /\ lock' = th
    /\ Goto(th, Locked[loc[th].op])
    /\ UNCHANGED <<chan, panicked, history, loc, overlap>>

\* `outputs.insert(output)`
OutputsInsert(th) ==
    /\ Step(th, "insert")
    /\ outputs' = outputs \cup {loc[th].o}
    /\ Goto(th, "unlock")
    /\ UNCHANGED <<source, reading, histogram, last_write, latched, max, min, has_data, loc>>

\* `outputs.remove(&output)`
OutputsRemove(th) ==
    /\ Step(th, "remove")
    /\ outputs' = outputs \ {loc[th].o}
    /\ Goto(th, "unlock")
    /\ UNCHANGED <<source, reading, histogram, last_write, latched, max, min, has_data, loc>>

\* `for output in &*outputs { .. }` of readings() and hash_map(): loads of the
\* reading, the trackers and the histogram, none of which takes a lock.
Iterate(th) ==
    /\ Step(th, "iterate")
    /\ Goto(th, "unlock")
    /\ UNCHANGED <<chan, loc>>

\* A return that leaves the mutex held.
UnlockForgotten(th) ==
    /\ pc[th] = "unlock"
    /\ lock = th
    /\ lock' = th
    /\ Return(th)
    /\ UNCHANGED <<chan, panicked, history, overlap>>

\* The MutexGuard drops as the method returns.
Unlock(th) ==
    /\ pc[th] = "unlock"
    /\ lock = th
    /\ lock' = 0
    /\ Return(th)
    /\ UNCHANGED <<chan, panicked, history, overlap>>

\* A step of a call that takes the mutex.
LockedStep(th) ==
    \/ Lock(th)
    \/ OutputsInsert(th)
    \/ OutputsRemove(th)
    \/ Iterate(th)
    \/ Unlock(th)

\* ------------------------------------------------------------ specification

\* Spec: every recording rule, latch and zero, with no output registered.
Next ==
    \/ \E t \in Times, v \in Values : RecordCounter(t, v)
    \/ \E t \in Times, v \in Values : RecordDelta(t, v)
    \/ \E t \in Times, v \in Values, c \in Counts : RecordDistribution(t, v, c)
    \/ \E t \in Times, v \in Values : RecordGauge(t, v)
    \/ \E t \in Times, c \in Counts : RecordIncrement(t, c)
    \/ \E start \in Times, stop \in Times : RecordTimeInterval(start, stop)
    \/ Latch
    \/ \E now \in Times : Zero(now)

Spec == Init /\ [][Next]_vars

\* SpecOut: the output set and the queries, with the recordings that feed them.
OutTimes == {0, 1}
OutValues == {0, 1, 2}

NextOut ==
    \/ \E o \in OutputKinds : AddOutput(o)
    \/ \E o \in OutputKinds : DeleteOutput(o)
    \/ \E t \in OutTimes, v \in OutValues : RecordGauge(t, v)
    \/ \E t \in OutTimes, v \in OutValues : RecordCounter(t, v)
    \/ \E t \in OutTimes, v \in OutValues : RecordDelta(t, v)
    \/ \E t \in OutTimes, v \in OutValues : RecordDistribution(t, v, 1)
    \/ Latch
    \/ \E now \in OutTimes : Zero(now)

SpecOut == Init /\ [][NextOut]_vars

\* SpecFirst: two producers, each calling record_counter once on a fresh Counter
\* Channel, their steps interleaved in every order.
Producers == {1, 2}

InitCounter ==
    \E summary \in BOOLEAN, now \in Times :
        New("Counter", summary, now) /\ total = Void

\* At most one of the two calls finds has_data set and reaches the trackers,
\* which it finds unset: the comparisons with a stored value are never reached.
NextFirst ==
    \E th \in Producers :
        \/ \E t \in Times, v \in Values : EnterRecordCounter(th, t, v)
        \/ RecordCounterStep(th)
        \/ CheckMaxTime(th)
        \/ MaxSet(th)
        \/ CheckMinTime(th)
        \/ MinSet(th)

SpecFirst == InitCounter /\ [][NextFirst]_vars

\* SpecCounter: every thread calling record_counter once on a Counter Channel,
\* their steps interleaved in every order.
CounterTimes == {1}
CounterValues == {0, 1}

NextCounter ==
    \E th \in Threads :
        \/ \E t \in CounterTimes, v \in CounterValues : EnterRecordCounter(th, t, v)
        \/ RecordCounterStep(th)
        \/ ExtremumStep(th)

SpecCounter == InitCounter /\ [][NextCounter]_vars

\* SpecRace: threads that call record_gauge (with a nonzero timestamp), latch or
\* zero once each on a Gauge Channel, their steps interleaved in every order.
Callers == 1..NCallers
EventTimes == {1, 2}
EventValues == {0, 1}

InitGauge ==
    \E summary \in BOOLEAN, now \in Times :
        New("Gauge", summary, now) /\ total = Void

NextRace ==
    \E th \in Callers :
        \/ \E t \in EventTimes, v \in EventValues : EnterRecordGauge(th, t, v)
        \/ EnterLatch(th)
        \/ EnterZero(th, 0)
        \/ RecordGaugeStep(th)
        \/ ExtremumStep(th)
        \/ ResetStep(th)

SpecRace == InitGauge /\ [][NextRace]_vars

\* SpecDist: threads that call record_distribution once each on a Distribution
\* Channel, their steps interleaved in every order.
DistValues == {0, 1}
DistCounts == Counts \cup {U64Max}

InitDistribution ==
    \E summary \in BOOLEAN, now \in Times :
        New("Distribution", summary, now) /\ total = Void

NextDist ==
    \E th \in Callers :
        \/ \E t \in EventTimes, v \in DistValues, c \in DistCounts :
               EnterRecordDistribution(th, t, v, c)
        \/ RecordDistributionStep(th)

SpecDist == InitDistribution /\ [][NextDist]_vars

\* SpecInterval: threads that call record_time_interval once each on a
\* TimeInterval Channel, their steps interleaved in every order.
InitTimeInterval ==
    \E summary \in BOOLEAN, now \in Times :
        New("TimeInterval", summary, now) /\ total = Void

IntervalStarts == {0, 1, 2}
IntervalStops == {0, 1}

NextInterval ==
    \E th \in Callers :
        \/ \E start \in IntervalStarts, stop \in IntervalStops :
               EnterRecordTimeInterval(th, start, stop)
        \/ RecordTimeIntervalStep(th)

SpecInterval == InitTimeInterval /\ [][NextInterval]_vars

\* SpecLock: threads that call add_output, delete_output, readings, hash_map,
\* record_gauge, latch or zero once each on a Gauge Channel; a thread inside a
\* call is scheduled again and again until the call returns.
LockOutputs == {OutReading, OutMaxPointTime}

\* A step of the call thread th is in.
Proceed(th) ==
    \/ LockedStep(th)
    \/ RecordGaugeStep(th)
    \/ ExtremumStep(th)
    \/ ResetStep(th)

NextLock ==
    \E th \in Callers :
        \/ \E o \in LockOutputs : EnterAddOutput(th, o)
        \/ \E o \in LockOutputs : EnterDeleteOutput(th, o)
        \/ \E name \in {"readings", "hash_map"} : EnterQuery(th, name)
        \/ \E v \in EventValues : EnterRecordGauge(th, 1, v)
        \/ EnterLatch(th)
        \/ EnterZero(th, 0)
        \/ Proceed(th)

\* A Gauge Channel with a histogram, created at clock 0.
InitLock == New("Gauge", TRUE, 0) /\ total = Void

SpecLock ==
    /\ InitLock
    /\ [][NextLock]_vars
    /\ \A th \in Callers : WF_vars(Proceed(th))

\* SpecSum: a Counter Channel fed by record_increment and record_delta only,
\* with the sum of what was supplied kept in `total`.
InitSum ==
    \E summary \in BOOLEAN, now \in Times :
        New("Counter", summary, now) /\ total = <<0>>

NextSum ==
    \/ \E t \in Times, c \in Counts : RecordIncrement(t, c)
    \/ \E t \in Times, v \in Values : RecordDelta(t, v)
    \/ Latch
    \/ \E now \in Times : Zero(now)

SpecSum == InitSum /\ [][NextSum]_vars

\* ================================================================== claims

\* The histogram, where there is one, gained exactly `weight` at `value`.
Gained(value, weight) ==
    IF histogram = << >>
    THEN histogram' = << >>
    ELSE /\ histogram' # << >>
         /\ \A x \in U64 :
                histogram'[1][x] = histogram[1][x] + (IF x = value THEN weight ELSE 0)

\* The weight the histogram holds; 0 where there is none.
Held == IF histogram = << >> THEN 0 ELSE HistTotal(histogram[1])

\* The rate of a difference dv over an elapsed time dt: dv * TicksPerSec / dt
\* truncated, u64::MAX where that exceeds the word or dt is 0 with dv > 0, and 0
\* for 0 / 0.
ExactRate(dv, dt) ==
    IF dt = 0
    THEN IF dv > 0 THEN U64Max ELSE 0
    ELSE LET q == (dv * TicksPerSec) \div dt
         IN  IF q < U64Max THEN q ELSE U64Max

Unset == [value |-> 0, time |-> 0]
At(value, time) == [value |-> value, time |-> time]

CounterCalls == {"record_counter", "record_delta", "record_increment"}
RecordCalls ==
    CounterCalls \cup {"record_gauge", "record_distribution", "record_time_interval"}

\* ---- C1
\* C1 (kind gating): a record_* call whose gating kind is not the Channel's kind
\* leaves reading, histogram, both extremum trackers, last_write and has_data
\* unchanged.
C1_KindGating ==
    [][ LET Frame == UNCHANGED <<reading, histogram, max, min, last_write, has_data>>
        IN  /\ (op' \in CounterCalls /\ source # "Counter" => Frame)
            /\ (op' = "record_gauge" /\ source # "Gauge" => Frame)
            /\ (op' = "record_distribution" /\ source # "Distribution" => Frame)
            /\ (op' = "record_time_interval" /\ source # "TimeInterval" => Frame)
      ]_vars

\* A record_gauge call has returned on a Counter channel that holds a reading, a
\* baseline and extrema.
C1_Witness ==
    /\ op = "record_gauge"
    /\ source = "Counter"
    /\ noop
    /\ has_data
    /\ reading > 0
    /\ max.time > 0

\* ---- C2
\* C2 (counter bootstrap): on a Counter channel without data the first
\* record_counter(t1, v1) sets reading = v1, has_data and last_write = t1, adds no
\* histogram sample and changes no extremum tracker; the next record_counter(t2, v2)
\* adds exactly one sample of weight 1 at the rate of (v2 - v1) over (t2 - t1),
\* leaves reading = v2 and last_write = t2, and leaves max and min both at
\* (rate, t2).
C2_CounterBootstrap ==
    [][ op' = "record_counter" /\ source = "Counter" =>
            \A t \in Times, v \in Values :
                RecordCounter(t, v) =>
                    IF ~has_data
                    THEN /\ reading' = v
                         /\ has_data'
                         /\ last_write' = t
                         /\ UNCHANGED <<histogram, max, min>>
                    ELSE LET dv == (v - reading + Modulus) % Modulus
                             dt == (t - last_write + Modulus) % Modulus
                             rate == ExactRate(dv, dt)
                         IN  /\ Gained(rate, 1)
                             /\ reading' = (reading + dv) % Modulus
                             /\ reading' = v
                             /\ last_write' = t
                             /\ has_data'
                             /\ (max = Unset /\ min = Unset =>
                                    max' = At(rate, t) /\ min' = At(rate, t))
      ]_vars

\* The second record_counter: baseline 0 at time 1, then value 1 at time 2, which
\* is 1 event per tick and so TicksPerSec events per second.
C2_Witness ==
    /\ op = "record_counter"
    /\ source = "Counter"
    /\ has_data
    /\ ~incremented
    /\ reading = 1
    /\ last_write = 2
    /\ histogram = <<[HistEmpty EXCEPT ![TicksPerSec] = 1]>>
    /\ max = At(TicksPerSec, 2)
    /\ min = At(TicksPerSec, 2)

\* ---- C3
\* The extremum rule of the claim for a recording (x, t): the first one since
\* new()/latch()/zero() becomes both max and min, a later one replaces max only
\* when strictly greater and min only when strictly less.
FirstWins(x, t) == max' = At(x, t) /\ min' = At(x, t)
StrictOnly(x, t) ==
    /\ max' = (IF x > max.value THEN At(x, t) ELSE max)
    /\ min' = (IF x < min.value THEN At(x, t) ELSE min)

\* Every recording that reaches the extremum step satisfies Rule(x, t).
ExtremumSteps(anyTimestamps) ==
    LET Rule(x, t) ==
            /\ (tracked = "none" => FirstWins(x, t))
            /\ (tracked = "ok" => StrictOnly(x, t))
            /\ (anyTimestamps /\ tracked = "zero" => StrictOnly(x, t))
    IN  /\ (op' = "record_gauge" /\ source = "Gauge" =>
                \A t \in Times, v \in Values : RecordGauge(t, v) => Rule(v, t))
        /\ (op' = "record_counter" /\ source = "Counter" /\ has_data =>
                \A t \in Times, v \in Values :
                    RecordCounter(t, v) =>
                        Rule(ExactRate((v - reading + Modulus) % Modulus,
                                       (t - last_write + Modulus) % Modulus), t))
        /\ (op' = "record_delta" /\ source = "Counter" /\ has_data /\ ~panicked' =>
                \A t \in Times, v \in Values :
                    RecordDelta(t, v) =>
                        Rule(ExactRate(v, (t - last_write + Modulus) % Modulus), t))
        /\ (op' = "record_time_interval" /\ source = "TimeInterval" =>
                \A start \in Times, stop \in Times :
                    RecordTimeInterval(start, stop) =>
                        Rule((stop - start + Modulus) % Modulus, start))

\* C3 as claimed (extremum first-write-wins, with any timestamps): the first
\* qualifying recording becomes both max and min, every later one replaces max
\* only when strictly greater than the stored max and min only when strictly less.
C3_AnyTimestamps == [][ExtremumSteps(TRUE)]_vars

\* C3 as amended: the same for recordings with nonzero timestamps (a recording
\* with timestamp 0 may come first; after one, the rule for later recordings is
\* not claimed).
C3_NonzeroTimestamps == [][ExtremumSteps(FALSE)]_vars

\* A third gauge value, between the stored min and max, left both where they were.
C3_Witness ==
    /\ op = "record_gauge"
    /\ source = "Gauge"
    /\ tracked = "ok"
    /\ min.value < reading
    /\ reading < max.value
    /\ last_write # max.time
    /\ last_write # min.time

\* ---- C4
\* C4 (latch vs. zero): latch() on a latched Channel empties the histogram and
\* resets both trackers to (0, 0), leaving reading, has_data, last_write and the
\* output set unchanged; zero() empties the histogram, resets both trackers, sets
\* reading to 0 and has_data to false, so that the next record_counter or
\* record_delta stores its value as the baseline and records no sample.
C4_LatchVsZero ==
    [][ /\ (op' = "latch" /\ latched =>
                /\ Held' = 0
                /\ (histogram = << >>) = (histogram' = << >>)
                /\ max' = Unset /\ min' = Unset
                /\ UNCHANGED <<reading, has_data, last_write, outputs>>)
        /\ (op' = "zero" =>
                /\ Held' = 0
                /\ (histogram = << >>) = (histogram' = << >>)
                /\ max' = Unset /\ min' = Unset
                /\ reading' = 0
                /\ ~has_data'
                /\ UNCHANGED outputs)
        /\ (op = "zero" /\ source = "Counter" /\ op' \in {"record_counter", "record_delta"} =>
                /\ has_data'
                /\ UNCHANGED <<histogram, max, min>>
                /\ \A t \in Times, v \in Values :
                       RecordCounter(t, v) \/ RecordDelta(t, v) => reading' = v /\ last_write' = t)
      ]_vars

\* latch() has returned, having changed the Channel, on a Counter channel with a
\* histogram, a baseline, a reading and registered outputs.
C4_Witness ==
    /\ op = "latch"
    /\ ~noop
    /\ source = "Counter"
    /\ histogram = <<HistEmpty>>
    /\ has_data
    /\ reading > 0
    /\ outputs # {}

\* ---- C5
PercentileArgs == {1, 50, 99}

\* What percentile(p) returns in a state, by the claim.
PercentileModes ==
    \A p \in PercentileArgs :
        LET r == percentile(p)
        IN  IF histogram = << >>
            THEN r = Err(NoSummary)
            ELSE IF \A x \in U64 : histogram[1][x] = 0
            THEN r = Err(EmptyChannel)
            ELSE r.ok /\ histogram[1][r.value] > 0

\* C5 (percentile error modes): without a histogram percentile(p) is NoSummary,
\* now and after every call; with one it is EmptyChannel while the histogram holds
\* no sample and Ok, with a value the histogram holds, once it holds one; after
\* record_distribution(t, v, 1) into an empty histogram percentile(50) is Ok(v).
C5_PercentileModes ==
    /\ []PercentileModes
    /\ [][ /\ (histogram = << >> => histogram' = << >>)
           /\ (op' = "record_distribution" /\ source = "Distribution"
                 /\ histogram # << >> /\ Held = 0 =>
                   \A t \in Times, v \in Values :
                       RecordDistribution(t, v, 1) => percentile(50)' = Ok(v))
         ]_vars

\* record_distribution has put one sample, the value 2, into the histogram of a
\* Distribution channel and percentile(50) returns it.
C5_Witness ==
    /\ op = "record_distribution"
    /\ source = "Distribution"
    /\ histogram # << >>
    /\ Held = 1
    /\ percentile(50) = Ok(2)

\* ---- C6
\* C6 as claimed (state invariant): has_data = false implies reading = 0 and
\* max.time = 0 and min.time = 0, for a Channel of any kind.
C6_NoDataMeansZero ==
    ~has_data => reading = 0 /\ max.time = 0 /\ min.time = 0

\* C6 as amended: on a Counter channel has_data = false implies max.time = 0 and
\* min.time = 0, and reading = 0 unless record_increment was called since
\* construction or the last zero().
C6_CounterNoDataMeansZero ==
    source = "Counter" /\ ~has_data =>
        /\ max.time = 0
        /\ min.time = 0
        /\ (~incremented => reading = 0)

\* On a Counter channel without a baseline, record_increment calls have raised
\* the reading and a latch() has then cleared what they put into the histogram.
C6_Witness ==
    /\ op = "latch"
    /\ ~noop
    /\ source = "Counter"
    /\ ~has_data
    /\ incremented
    /\ reading > 0
    /\ max.time = 0
    /\ min.time = 0

\* ---- C7
\* C7 (wraparound safety): on a Counter channel with has_data set,
\* record_counter(time, value) with value below the reading returns, uses
\* (value - reading) mod 2^64 as delta_value, so that reading = value after it and
\* the sample is the rate of that delta over (time - last_write) mod 2^64.
C7_Wraparound ==
    [][ op' = "record_counter" /\ source = "Counter" /\ has_data =>
            \A t \in Times, v \in Values :
                RecordCounter(t, v) /\ v < reading =>
                    LET dv == v - reading + Modulus
                        dt == IF t < last_write THEN t - last_write + Modulus
                                                ELSE t - last_write
                    IN  /\ ~panicked'
                        /\ reading' = v
                        /\ reading' = (reading + dv) % Modulus
                        /\ Gained(ExactRate(dv, dt), 1)
                        /\ last_write' = t
      ]_vars

\* record_counter has returned after a value below the reading, at a timestamp
\* below last_write.
C7_Witness ==
    /\ op = "record_counter"
    /\ wrapped
    /\ ~panicked
    /\ histogram # << >>
    /\ Held > 0
    /\ last_write = 0

\* ---- C8
\* C8 (no recording call fails): no record_* call panics or overflows, whatever
\* the timestamps and values.
C8_NoRecordingFails == ~panicked

\* ---- C9
\* The entries of readings() for the output Reading.
ReadingEntries == SelectSeq(readings, LAMBDA r : r.output = OutReading)

\* C9 (output round trip): on a Gauge channel with Reading registered, after
\* record_gauge(t, v) readings() holds exactly one entry for Reading, with the
\* metric's name and the value v; after delete_output(Reading), and for as long
\* as Reading is not registered again, readings() holds none, whatever is recorded.
C9_OutputRoundTrip ==
    [][ /\ (op' = "record_gauge" /\ source = "Gauge" /\ OutReading \in outputs =>
                \A t \in Times, v \in Values :
                    RecordGauge(t, v) =>
                        ReadingEntries' =
                            <<[label |-> StatName, output |-> OutReading, value |-> v]>>)
        /\ (DeleteOutput(OutReading) => ReadingEntries' = << >>)
        /\ (ReadingEntries = << >> /\ op' # "add_output" => ReadingEntries' = << >>)
        /\ (op' = "add_output" /\ OutReading \in outputs' /\ AddOutput(OutReading) =>
                Len(ReadingEntries') = 1)
      ]_vars

\* record_gauge(t, 2) has returned on a Gauge channel with Reading and another
\* output registered, and readings() holds the one entry for Reading, value 2.
C9_Witness ==
    /\ op = "record_gauge"
    /\ ~noop
    /\ source = "Gauge"
    /\ OutReading \in outputs
    /\ Cardinality(outputs) >= 2
    /\ ReadingEntries = <<[label |-> StatName, output |-> OutReading, value |-> 2]>>

\* ---- C10
\* C10 (output-set idempotence): add_output(k) leaves a set that holds k
\* unchanged and adds k otherwise, delete_output(k) leaves a set without k
\* unchanged and removes k otherwise, so that a second call of either changes
\* nothing; neither changes another field of the Channel.
C10_OutputIdempotence ==
    [][ LET Others == UNCHANGED <<source, reading, histogram, last_write, latched,
                                  max, min, has_data>>
        IN  /\ (op' = "add_output" =>
                    \A k \in OutputKinds :
                        AddOutput(k) =>
                            /\ outputs' = outputs \cup {k}
                            /\ (k \in outputs => outputs' = outputs)
                            /\ k \in outputs'
                            /\ Others)
            /\ (op' = "delete_output" =>
                    \A k \in OutputKinds :
                        DeleteOutput(k) =>
                            /\ outputs' = outputs \ {k}
                            /\ (k \notin outputs => outputs' = outputs)
                            /\ k \notin outputs'
                            /\ Others)
      ]_vars

\* add_output(k) has returned with k already registered: nothing changed.
C10_Witness ==
    /\ op = "add_output"
    /\ noop
    /\ Cardinality(outputs) = 2

\* ---- C11
\* The entries readings() holds for one output kind.
EntriesFor(output) == SelectSeq(readings, LAMBDA r : r.output = output)

\* One entry of the given value for the output in readings() and in hash_map().
Emits(output, value) ==
    /\ EntriesFor(output) = <<NewReading(StatName, output, value)>>
    /\ output \in DOMAIN hash_map
    /\ hash_map[output] = value

\* No entry for the output in readings() nor in hash_map().
Omits(output) ==
    /\ EntriesFor(output) = << >>
    /\ output \notin DOMAIN hash_map

\* C11 (percentile failures are skipped): readings() and hash_map() always
\* return a result; a registered Percentile(p) contributes an entry exactly when
\* percentile(p) is Ok, with that value, and a failing one is left out without
\* touching the entries of the other registered outputs (Reading keeps its one
\* entry); the result holds at most one entry per registered kind and none for
\* a kind that is not registered.
C11_PercentileFailuresSkipped ==
    /\ \A o \in OutputKinds \ outputs : Omits(o)
    /\ \A o \in outputs : Len(EntriesFor(o)) <= 1
    /\ Len(readings) = Cardinality(DOMAIN hash_map)
    /\ OutReading \in outputs => Emits(OutReading, reading)
    /\ \A p \in Percentiles :
           OutPercentile(p) \in outputs =>
               IF percentile(p).ok
               THEN Emits(OutPercentile(p), percentile(p).value)
               ELSE Omits(OutPercentile(p))

\* Reading and a percentile are both registered, reading is nonzero, and the
\* percentile fails: the result is the single Reading entry.
C11_Witness ==
    /\ {OutReading, OutPercentile(50)} \subseteq outputs
    /\ ~percentile(50).ok
    /\ reading > 0
    /\ readings = <<NewReading(StatName, OutReading, reading)>>

\* ---- C18
\* C18 (minimum-timestamp output): a registered MinPointTime is emitted exactly
\* when the minimum tracker is set (min.time > 0), with value min.time, so the
\* emitted value is never 0; a registered MaxPointTime likewise for the maximum
\* tracker.
C18_PointTimeWhenSet ==
    /\ OutMinPointTime \in outputs =>
           IF min.time > 0 THEN Emits(OutMinPointTime, min.time) ELSE Omits(OutMinPointTime)
    /\ OutMaxPointTime \in outputs =>
           IF max.time > 0 THEN Emits(OutMaxPointTime, max.time) ELSE Omits(OutMaxPointTime)

\* ---- C17
\* C17 (sum of increments and deltas): on a Counter Channel that has received,
\* since creation or the last zero(), only record_increment and record_delta
\* calls, in any order, reading() equals the sum of all the supplied counts and
\* values modulo 2^64.
C17_ReadingIsSum == reading = total[1]

\* ---- C12
\* C12 (concurrent first writes): two producers run record_counter(t1, v1) and
\* record_counter(t2, v2) concurrently on a fresh Counter Channel; in every
\* interleaving of their atomic steps no call panics, and once both have
\* returned has_data is true, the reading is v1 or v2 and last_write is t1 or t2.
C12_ConcurrentFirstWrites ==
    /\ ~panicked
    /\ (\A th \in Producers : pc[th] = Done) =>
           /\ has_data
           /\ reading \in {loc[th].b : th \in Producers}
           /\ last_write \in {loc[th].a : th \in Producers}

\* Both calls returned after running at the same time with different
\* arguments, one through the bootstrap branch and one through the rate branch,
\* whose sample is in the histogram.
C12_Witness ==
    /\ \A th \in Producers : pc[th] = Done /\ loc[th].op = "record_counter"
    /\ overlap
    /\ loc[1].b # loc[2].b
    /\ loc[1].a # loc[2].a
    /\ Held = 1

\* ---- C20
\* The threads whose call returned.
Returned == {th \in Threads : pc[th] = Done}

\* C20 (the Counter reading is a supplied value): on a Counter Channel fed only
\* by record_counter calls, whenever no call is in progress the reading is the
\* value passed to one of the calls made so far, or 0 if none was made; under
\* every interleaving of three or more concurrent calls.
C20_ReadingIsSupplied ==
    Running = {} =>
        IF Returned = {} THEN reading = 0 ELSE reading \in {loc[th].b : th \in Returned}

\* ---- C13
\* The (value, time) pairs of the record_gauge events recorded so far.
Events == {At(loc[th].b, loc[th].a) : th \in {t \in Threads : loc[t].op = "record_gauge"}}

MaxDominatesMin == (max.time > 0 /\ min.time > 0) => max.value >= min.value

\* C19 (max dominates min), as claimed: in every reachable state, after any
\* sequence of calls and under every interleaving of concurrent recorders
\* racing on the check-then-set updates.
C19_MaxDominatesMin == MaxDominatesMin

\* C19, amended: as long as no two calls have been in progress at the same
\* time.
C19_MaxDominatesMinSequentially == ~overlap => MaxDominatesMin

\* Two recordings, one after the other, left the larger value in the maximum
\* and the smaller in the minimum.
C19_Witness ==
    /\ ~overlap
    /\ Running = {}
    /\ max.time > 0
    /\ min.time > 0
    /\ max.value > min.value

\* ---- C15
RECURSIVE Counted(_)
\* The sum of the counts of the calls of the threads `ths`.
Counted(ths) ==
    IF ths = {}
    THEN 0
    ELSE LET th == CHOOSE t \in ths : TRUE IN loc[th].c + Counted(ths \ {th})

\* The threads whose call is at or past the positions `at`.
Past(at) == {th \in Threads : pc[th] \in at}

\* C15 (distribution accumulation is lossless): on a Distribution Channel,
\* under every interleaving of concurrent record_distribution calls, the
\* reading is the sum modulo 2^64 of the counts of the calls that are past
\* their fetch_add and the histogram holds at every value the counts of the
\* calls past their increment with that value; so once all calls have returned
\* the reading is the sum of all counts and the histogram has gained count_i at
\* value_i for every call. No call changes max, min or has_data.
C15_DistributionLossless ==
    /\ reading = Counted(Past({"increment", "store_last_write", Done})) % Modulus
    /\ histogram # << >> =>
           \A v \in U64 :
               histogram[1][v] =
                   Counted({th \in Past({"store_last_write", Done}) : loc[th].b = v})
    /\ max = Unset
    /\ min = Unset
    /\ ~has_data

\* Every thread's call has returned after running while another was in
\* progress, each with a count above 0, two of them at the same value.
C15_Witness ==
    /\ Returned = Callers
    /\ overlap
    /\ \A th \in Callers : loc[th].c > 0
    /\ loc[1].b = loc[2].b
    /\ histogram # << >>

\* ---- C16
\* The duration of the interval thread th recorded.
Duration(th) == (loc[th].b - loc[th].a + Modulus) % Modulus

\* The positions of a record_time_interval call past its fetch_add, and past
\* its histogram increment.
Incremented == {"max_time", "max_value", "max_set", "min_time", "min_value", "min_set", Done}
Added == Incremented \cup {"increment"}

\* The tracker holds the duration of one of the calls with that call's start.
HoldsInterval(p) == \E th \in Past(Added) : p = At(Duration(th), loc[th].a)

\* The extremum rule over calls made one after another with nonzero starts: the
\* maximum holds the largest duration and the minimum the smallest, each with
\* the start of a call of that duration.
IntervalExtrema ==
    LET ds == {Duration(th) : th \in Returned}
    IN  /\ HoldsInterval(max)
        /\ HoldsInterval(min)
        /\ \A d \in ds : min.value <= d /\ d <= max.value

\* C16 (time-interval recording): on a TimeInterval Channel every
\* record_time_interval(start, stop) call adds exactly 1 to the reading and one
\* histogram sample of weight 1 at (stop - start) mod 2^64, applies the extremum
\* rule to that duration with start (not stop) as the tracker's time, and leaves
\* last_write and has_data as they were; after n calls, sequential or
\* concurrent, have returned, the reading is n.
C16_TimeIntervals ==
    /\ [](/\ reading = Cardinality(Past(Added)) % Modulus
          /\ histogram # << >> =>
                 \A v \in U64 :
                     histogram[1][v] =
                         Cardinality({th \in Past(Incremented) : Duration(th) = v})
          /\ max # Unset => HoldsInterval(max)
          /\ min # Unset => HoldsInterval(min)
          /\ (Running = {} /\ Returned # {} /\ ~overlap /\ \A th \in Returned : loc[th].a > 0)
                 => IntervalExtrema
          /\ ~has_data)
    /\ [][last_write' = last_write /\ has_data' = has_data]_vars

\* Every thread's call has returned, one after another, one of them with a stop
\* before its start; the trackers hold two different durations.
C16_Witness ==
    /\ Returned = Callers
    /\ ~overlap
    /\ reading = NCallers % Modulus
    /\ \E th \in Callers : loc[th].b < loc[th].a
    /\ \A th \in Callers : loc[th].a > 0
    /\ max.value > min.value
    /\ histogram # << >>

\* ---- C14
\* The positions of a call that holds the mutex.
UnderLock == {"insert", "remove", "iterate", "unlock"}

\* C14 (no operation blocks indefinitely): the mutex of the output set is the
\* only lock; it is held exactly by a thread inside the locked part of
\* add_output, delete_output, readings or hash_map, which never requests it
\* again; under fair scheduling every call that was entered returns, and every
\* acquisition of the mutex is followed by its release.
C14_NoBlocking ==
    /\ [](\A th \in Threads : (lock = th) <=> (pc[th] \in UnderLock))
    /\ \A th \in Callers : (pc[th] # Idle) ~> (pc[th] = Done)
    /\ (lock # 0) ~> (lock = 0)

\* A thread waits for the mutex that another thread holds while it iterates.
C14_Witness ==
    \E holder \in Callers, waiter \in Callers :
        /\ lock = holder
        /\ pc[holder] = "iterate"
        /\ pc[waiter] = "lock"
        /\ loc[waiter].op = "add_output"
====
